---- MODULE Spec2Model ----
(***************************************************************************)
(* Model of image_segmentation/pytorch/model/losses.py: the Dice overlap   *)
(* computation, the one-hot encoder, and the DiceCELoss / DiceScore /      *)
(* LossBraTS wrappers.                                                     *)
(*                                                                         *)
(* A tensor is a record [shape, data, dtype]: shape is the sequence of     *)
(* dimension sizes, data the elements in row-major order, dtype "long"     *)
(* (integers), "float" or "bool".  A float is held as a fixed-point        *)
(* multiple of 1e-6 (Unit), the magnitude of smooth_nr and smooth_dr, so   *)
(* that 1.0 is Unit and 1e-6 is 1.  A Dice ratio is kept as the exact      *)
(* pair <<numerator, denominator>> in those units (dtype "ratio").         *)
(***************************************************************************)
EXTENDS Integers, Sequences, FiniteSets, TLC

VARIABLES instance, call, onehot, brats

vars == <<instance, call, onehot, brats>>

(***************************************************************************)
(* Bounds of the input domain.                                             *)
(***************************************************************************)
MaxBatch == 2
MaxDepth == 2
MaxClasses == 3
MaxVoxels == 4
MaxCalls == 2

(* 1.0 in fixed-point units of 1e-6 *)
Unit == 1000000

(***************************************************************************)
(* Tensor arithmetic of the numeric library, as the source uses it.        *)
(***************************************************************************)
RECURSIVE Prod(_)
Prod(s) == IF s = <<>> THEN 1 ELSE Head(s) * Prod(Tail(s))

RECURSIVE SumTo(_, _)
SumTo(s, n) == IF n = 0 THEN 0 ELSE s[n] + SumTo(s, n - 1)

SeqSum(s) == SumTo(s, Len(s))

(* python's range(a, b) as a list *)
Range(a, b) == [i \in 1..(IF b > a THEN b - a ELSE 0) |-> a + i - 1]

Rank(t) == Len(t.shape)

(* a python axis (0-based, negative counts from the end) as a 1-based index *)
Axis(dim, rank) == IF dim < 0 THEN dim + rank + 1 ELSE dim + 1

(* the row-major strides of shape s *)
Strides(s) == [j \in 1..Len(s) |-> Prod(SubSeq(s, j + 1, Len(s)))]

(* the 0-based coordinates of every element of shape s, in row-major order *)
Coords(s) ==
    LET st == Strides(s)
    IN  [k \in 1..Prod(s) |-> [j \in 1..Len(s) |-> ((k - 1) \div st[j]) % s[j]]]

(* the 0-based coordinates of the k-th element (k 0-based) of shape s *)
Coord(k, s) == Coords(s)[k + 1]

(* the element of t at coordinates c, st being the strides of t *)
Get(t, st, c) == t.data[SeqSum([j \in 1..Len(st) |-> c[j] * st[j]]) + 1]

Tensor(shape, dtype, data) == [shape |-> shape, dtype |-> dtype, data |-> data]

RemoveAt(s, a) == [j \in 1..(Len(s) - 1) |-> IF j < a THEN s[j] ELSE s[j + 1]]

InsertAt(s, a, v) ==
    [j \in 1..(Len(s) + 1) |-> IF j < a THEN s[j] ELSE IF j = a THEN v ELSE s[j - 1]]

NoTensor == [shape |-> <<>>, dtype |-> "none", data |-> <<>>]

Ok(t) == [err |-> "none", val |-> t]

Err(e) == [err |-> e, val |-> NoTensor]

(* torch.squeeze(array, dim): the axis is removed only when its size is 1 *)
squeeze(array, dim) ==
    LET a == Axis(dim, Rank(array))
    IN  IF array.shape[a] = 1
        THEN [array EXCEPT !.shape = RemoveAt(array.shape, a)]
        ELSE array

(* tensor.long(): floats are truncated toward zero *)
long(array) ==
    IF array.dtype = "float"
    THEN [array EXCEPT !.dtype = "long",
                       !.data = [k \in DOMAIN array.data |->
                                   IF array.data[k] >= 0
                                   THEN array.data[k] \div Unit
                                   ELSE -((-array.data[k]) \div Unit)]]
    ELSE array

(* F.one_hot: a new trailing axis of num_classes indicators; class values
   outside [0, num_classes) are an error *)
one_hot(array, num_classes) ==
    IF \E k \in DOMAIN array.data : array.data[k] < 0 \/ array.data[k] >= num_classes
    THEN Err("one_hot_class_range")
    ELSE LET st == Strides(array.shape)
             shape == Append(array.shape, num_classes)
             cs == Coords(shape)
         IN  Ok(Tensor(shape, "long",
                       [k \in DOMAIN cs |->
                          IF Get(array, st, cs[k]) = cs[k][Len(shape)] THEN 1 ELSE 0]))

(* tensor.permute(dims): dims must name every axis of the tensor once *)
permute(array, dims) ==
    IF Len(dims) # Rank(array)
    THEN Err("permute_dims")
    ELSE LET inv == [i \in 1..Len(dims) |-> CHOOSE j \in 1..Len(dims) : dims[j] + 1 = i]
             st == Strides(array.shape)
             shape == [j \in 1..Len(dims) |-> array.shape[dims[j] + 1]]
             cs == Coords(shape)
         IN  Ok(Tensor(shape, array.dtype,
                       [k \in DOMAIN cs |->
                          Get(array, st, [i \in 1..Len(dims) |-> cs[k][inv[i]]])]))

(* e^x in hundredths, for the logits of the input domain *)
ExpTable(x) == CASE x = 0 -> 100 [] x = Unit -> 272

(* torch.softmax(prediction, dim): per voxel, e^x over the sum along dim *)
softmax(array, dim) ==
    LET a == Axis(dim, Rank(array))
        st == Strides(array.shape)
        total(c) == SeqSum([i \in 1..array.shape[a] |->
                              ExpTable(Get(array, st, [c EXCEPT ![a] = i - 1]))])
        cs == Coords(array.shape)
    IN  Tensor(array.shape, "float",
               [k \in DOMAIN cs |->
                  (ExpTable(Get(array, st, cs[k])) * Unit) \div total(cs[k])])

(* torch.argmax(prediction, dim): the axis is removed, each voxel holds the
   index of its first maximal value *)
argmax(array, dim) ==
    LET a == Axis(dim, Rank(array))
        n == array.shape[a]
        st == Strides(array.shape)
        val(c, i) == Get(array, st, InsertAt(c, a, i))
        cs == Coords(RemoveAt(array.shape, a))
    IN  Tensor(RemoveAt(array.shape, a), "long",
               [k \in DOMAIN cs |->
                  CHOOSE i \in 0..(n - 1) :
                     /\ \A j \in 0..(n - 1) : val(cs[k], j) <= val(cs[k], i)
                     /\ \A j \in 0..(i - 1) : val(cs[k], j) < val(cs[k], i)])

(* tensor[:, 1:] (axis 2) or tensor[..., 1:] (last axis): index 0 dropped *)
DropFirst(array, a) ==
    LET st == Strides(array.shape)
        shape == [array.shape EXCEPT ![a] = IF @ > 0 THEN @ - 1 ELSE 0]
        cs == Coords(shape)
    IN  Tensor(shape, array.dtype,
               [k \in DOMAIN cs |-> Get(array, st, [cs[k] EXCEPT ![a] = @ + 1])])

(* torch.sum(array, dim=reduce_axis): the axes of reduce_axis are summed away;
   an axis the tensor does not have is an error *)
sum(array, reduce_axis) ==
    IF \E i \in DOMAIN reduce_axis : reduce_axis[i] >= Rank(array)
    THEN Err("sum_dim_range")
    ELSE LET kept == SelectSeq(Range(1, Rank(array) + 1),
                               LAMBDA j : \A i \in DOMAIN reduce_axis : reduce_axis[i] + 1 # j)
             st == Strides(array.shape)
             group == [k \in 1..Prod(array.shape) |->
                         [i \in 1..Len(kept) |->
                            ((k - 1) \div st[kept[i]]) % array.shape[kept[i]]]]
             shape == [i \in 1..Len(kept) |-> array.shape[kept[i]]]
             cs == Coords(shape)
         IN  Ok(Tensor(shape, array.dtype,
                       [r \in DOMAIN cs |->
                          SeqSum([k \in 1..Prod(array.shape) |->
                                    IF group[k] = cs[r] THEN array.data[k] ELSE 0])]))

(* a stored value in units of 1e-6 *)
AsFloat(v, dtype) == IF dtype = "float" THEN v ELSE v * Unit

(* target * prediction, elementwise on equal shapes; the target is integer
   typed, the product takes the prediction's dtype *)
mul(target, prediction) ==
    [shape |-> target.shape, dtype |-> prediction.dtype,
     data |-> [k \in DOMAIN target.data |-> target.data[k] * prediction.data[k]]]

(***************************************************************************)
(* to_one_hot and Dice                                                     *)
(***************************************************************************)
(* to_one_hot without the move of the class axis *)
to_one_hot_no_permute(array, layout, channel_axis, num_classes) ==
    one_hot(long(IF Rank(array) >= 5 THEN squeeze(array, channel_axis) ELSE array),
            num_classes)

to_one_hot(array, layout, channel_axis, num_classes) ==
    LET squeezed == IF Rank(array) >= 5 THEN squeeze(array, channel_axis) ELSE array
        expanded == one_hot(long(squeezed), num_classes)
    IN  IF expanded.err # "none" THEN expanded
        ELSE IF layout = "NCDHW" THEN permute(expanded.val, <<0, 4, 1, 2, 3>>)
        ELSE expanded

smooth_nr == 1

smooth_dr == 1

(* Dice.__init__: every argument but num_classes is stored *)
Dice(to_onehot_y, to_onehot_x, use_softmax, use_argmax, include_background, layout) ==
    [class |-> "Dice",
     include_background |-> include_background,
     to_onehot_y |-> to_onehot_y,
     to_onehot_x |-> to_onehot_x,
     use_softmax |-> use_softmax,
     use_argmax |-> use_argmax,
     smooth_nr |-> smooth_nr,
     smooth_dr |-> smooth_dr,
     layout |-> layout]

(* the assertion, off by one *)
background_check_off_by_one(num_pred_ch) == num_pred_ch > 0

(* the assertion of line 46 *)
background_check(num_pred_ch) == num_pred_ch > 1

(* the slices of lines 48-53 *)
exclude_background(array, layout) ==
    DropFirst(array, IF layout = "NCDHW" THEN 2 ELSE Rank(array))

(* the assertion, comparing the numbers of elements only *)
shape_check_numel(target, prediction) == Prod(target.shape) = Prod(prediction.shape)

(* the assertion of line 55 *)
shape_check(target, prediction) == target.shape = prediction.shape

(* line 62 without smooth_dr *)
ratio_without_smooth_dr(self, intersection, target_sum, prediction_sum) ==
    [shape |-> intersection.shape, dtype |-> "ratio",
     data |-> [k \in DOMAIN intersection.data |->
        << 2 * AsFloat(intersection.data[k], intersection.dtype) + self.smooth_nr,
           AsFloat(target_sum.data[k], target_sum.dtype)
             + AsFloat(prediction_sum.data[k], prediction_sum.dtype) >>]]

(* line 62, per element, as the exact fraction <<numerator, denominator>> *)
ratio(self, intersection, target_sum, prediction_sum) ==
    [shape |-> intersection.shape, dtype |-> "ratio",
     data |-> [k \in DOMAIN intersection.data |->
        << 2 * AsFloat(intersection.data[k], intersection.dtype) + self.smooth_nr,
           AsFloat(target_sum.data[k], target_sum.dtype)
             + AsFloat(prediction_sum.data[k], prediction_sum.dtype) + self.smooth_dr >>]]

Raised(error, msg, target, prediction) ==
    [status |-> "raised", error |-> error, msg |-> msg, result |-> NoTensor,
     target |-> target, prediction |-> prediction]

Returned(result, target, prediction) ==
    [status |-> "returned", error |-> "none", msg |-> <<>>, result |-> result,
     target |-> target, prediction |-> prediction]

(* Dice.__call__: the outcome of one call.  The fields target and prediction
   hold the two tensors as they stand at the shape assertion (NoTensor when
   the call fails before it). *)
Dice__call__(self, prediction, target) ==
    LET channel_axis == IF self.layout = "NCDHW" THEN 1 ELSE -1
        reduce_axis == IF self.layout = "NCDHW"
                       THEN Range(2, Rank(prediction))
                       ELSE Range(1, Rank(prediction) - 1)
        num_classes == IF self.layout = "NCDHW"
                       THEN prediction.shape[2]
                       ELSE prediction.shape[Rank(prediction)]
        num_pred_ch == prediction.shape[Axis(channel_axis, Rank(prediction))]
        p1 == IF self.use_softmax THEN softmax(prediction, channel_axis)
              ELSE IF self.use_argmax THEN argmax(prediction, channel_axis)
              ELSE prediction
        t2 == IF self.to_onehot_y
              THEN to_one_hot(target, self.layout, channel_axis, num_classes)
              ELSE Ok(target)
        p2 == IF self.to_onehot_x
              THEN to_one_hot(p1, self.layout, channel_axis, num_classes)
              ELSE Ok(p1)
        t3 == IF self.include_background THEN t2.val
              ELSE exclude_background(t2.val, self.layout)
        p3 == IF self.include_background THEN p2.val
              ELSE exclude_background(p2.val, self.layout)
        intersection == sum(mul(t3, p3), reduce_axis)
        target_sum == sum(t3, reduce_axis)
        prediction_sum == sum(p3, reduce_axis)
    IN  IF t2.err # "none" THEN Raised(t2.err, <<>>, NoTensor, NoTensor)
        ELSE IF p2.err # "none" THEN Raised(p2.err, <<>>, NoTensor, NoTensor)
        ELSE IF ~self.include_background /\ ~background_check(num_pred_ch)
        THEN Raised("background_assert", <<num_pred_ch>>, NoTensor, NoTensor)
        ELSE IF ~shape_check(t3, p3)
        THEN Raised("shape_assert", <<t3.shape, p3.shape>>, t3, p3)
        ELSE IF intersection.err # "none" THEN Raised(intersection.err, <<>>, t3, p3)
        ELSE Returned(ratio(self, intersection.val, target_sum.val, prediction_sum.val),
                      t3, p3)

(* a call that keeps a flag of its conversion in the instance *)
Dice_after_call_stores(self) == [self EXCEPT !.to_onehot_y = FALSE]

(* what a call leaves in the instance's attributes: __call__ assigns none *)
Dice_after_call(self) == self

(***************************************************************************)
(* DiceCELoss and DiceScore                                                *)
(***************************************************************************)
(* a / b in units of 1e-6, truncated, by long division *)
RECURSIVE Digits(_, _, _)
Digits(r, b, n) ==
    IF n = 0 THEN 0
    ELSE ((r * 10) \div b) * Prod([i \in 1..(n - 1) |-> 10]) + Digits((r * 10) % b, b, n - 1)

Quotient(q) == (q[1] \div q[2]) * Unit + Digits(q[1] % q[2], q[2], 6)

(* torch.mean over every element of 1.0 - ratios *)
mean_of_complement(ratios) ==
    IF Len(ratios.data) = 0 THEN "nan"
    ELSE SeqSum([k \in DOMAIN ratios.data |-> Unit - Quotient(ratios.data[k])])
           \div Len(ratios.data)

(* torch.mean(ratios, dim=0): the batch axis is averaged away *)
mean_over_batch(ratios) ==
    LET summed == sum([ratios EXCEPT !.dtype = "float",
                                     !.data = [k \in DOMAIN ratios.data |->
                                                 Quotient(ratios.data[k])]], <<0>>)
    IN  [summed.val EXCEPT !.data = [k \in DOMAIN summed.val.data |->
                                       summed.val.data[k] \div ratios.shape[1]]]

(* nn.CrossEntropyLoss()(input, target): the classes are axis 1 of input, the
   target holds one class index per remaining position.  The value is kept
   as the term itself. *)
CrossEntropyLoss(input, target) ==
    IF target.shape # RemoveAt(input.shape, 2)
    THEN [err |-> "cross_entropy_shape", val |-> <<>>]
    ELSE IF \E k \in DOMAIN target.data :
                target.data[k] < 0 \/ target.data[k] >= input.shape[2]
    THEN [err |-> "cross_entropy_class_range", val |-> <<>>]
    ELSE [err |-> "none", val |-> <<"cross_entropy", input, target>>]

(* DiceCELoss.__init__ *)
DiceCELoss(to_onehot_y, use_softmax, layout, include_background) ==
    [class |-> "DiceCELoss",
     dice |-> Dice(to_onehot_y, FALSE, use_softmax, FALSE, include_background, layout),
     cross_entropy |-> "CrossEntropyLoss"]

(* DiceCELoss.forward: the outcome, with the target handed to the
   cross-entropy in ce_target *)
DiceCELoss_forward(self, y_pred, y_true) ==
    LET ce_target == long(squeeze(y_true, 1))
        cross_entropy == CrossEntropyLoss(y_pred, ce_target)
        dice == Dice__call__(self.dice, y_pred, y_true)
    IN  IF cross_entropy.err # "none"
        THEN [status |-> "raised", error |-> cross_entropy.err, result |-> <<>>,
              ce_target |-> ce_target]
        ELSE IF dice.status = "raised"
        THEN [status |-> "raised", error |-> dice.error, result |-> <<>>,
              ce_target |-> ce_target]
        ELSE [status |-> "returned", error |-> "none",
              result |-> [half_of |-> <<mean_of_complement(dice.result),
                                        cross_entropy.val>>],
              ce_target |-> ce_target]

(* DiceScore.__init__ *)
DiceScore(to_onehot_y, use_argmax, layout, include_background) ==
    [class |-> "DiceScore",
     dice |-> Dice(to_onehot_y, TRUE, FALSE, use_argmax, include_background, layout)]

(* DiceScore.__call__ *)
DiceScore__call__(self, y_pred, y_true) ==
    LET dice == Dice__call__(self.dice, y_pred, y_true)
    IN  IF dice.status = "raised"
        THEN [status |-> "raised", error |-> dice.error, result |-> NoTensor]
        ELSE [status |-> "returned", error |-> "none",
              result |-> mean_over_batch(dice.result)]

(* what forward / __call__ leaves in the wrapper's attributes *)
DiceCELoss_after_forward(self) == [self EXCEPT !.dice = Dice_after_call(self.dice)]

DiceScore_after_call(self) == [self EXCEPT !.dice = Dice_after_call(self.dice)]

(***************************************************************************)
(* LossBraTS                                                               *)
(***************************************************************************)
(* elementwise comparisons and the sum of two bool tensors (a logical or) *)
gt(y, v) == [y EXCEPT !.dtype = "bool",
                      !.data = [k \in DOMAIN y.data |-> IF y.data[k] > v THEN 1 ELSE 0]]

eq(y, v) == [y EXCEPT !.dtype = "bool",
                      !.data = [k \in DOMAIN y.data |-> IF y.data[k] = v THEN 1 ELSE 0]]

add(a, b) == [a EXCEPT !.data = [k \in DOMAIN a.data |->
                                   IF a.data[k] + b.data[k] > 0 THEN 1 ELSE 0]]

(* p[:, channel].unsqueeze(1) *)
channel_of(p, channel) ==
    LET st == Strides(p.shape)
        cs == Coords([p.shape EXCEPT ![2] = 1])
    IN  Tensor([p.shape EXCEPT ![2] = 1], p.dtype,
               [k \in DOMAIN cs |-> Get(p, st, [cs[k] EXCEPT ![2] = channel])])

(* bool.float() *)
float(y) == [y EXCEPT !.dtype = "float",
                      !.data = [k \in DOMAIN y.data |-> y.data[k] * Unit]]

(* LossBraTS._loss: the two terms, kept as terms *)
LossBraTS_loss(p, y) ==
    [dice |-> [fn |-> "DiceLoss(sigmoid=True, batch=True)", input |-> p, target |-> y],
     ce |-> [fn |-> "BCEWithLogitsLoss", input |-> p, target |-> float(y)]]

(* the masks with label 3 left out of the tumor core *)
LossBraTS_masks_core_without_3(y) == <<gt(y, 0), gt(eq(y, 1), 0), eq(y, 3)>>

(* the three masks of line 107 *)
LossBraTS_masks(y) == <<gt(y, 0), gt(add(eq(y, 1), eq(y, 3)), 0), eq(y, 3)>>

(* LossBraTS.forward: the three region losses that are summed *)
LossBraTS_forward(p, y) ==
    LET masks == LossBraTS_masks(y)
        y_wt == masks[1]
        y_tc == masks[2]
        y_et == masks[3]
        p_wt == channel_of(p, 0)
        p_tc == channel_of(p, 1)
        p_et == channel_of(p, 2)
    IN  [sum_of |-> <<LossBraTS_loss(p_wt, y_wt), LossBraTS_loss(p_tc, y_tc),
                      LossBraTS_loss(p_et, y_et)>>]

(***************************************************************************)
(* The input domain: volumes of N batch items, C classes and D x 1 x 1     *)
(* voxels, laid out as the instance's layout declares.                     *)
(***************************************************************************)
Layouts == {"NCDHW", "NDHWC"}

(* logical coordinates <<n, c, d>> of a tensor coordinate *)
Logical(c, layout) == IF layout = "NCDHW" THEN <<c[1], c[2], c[3]>> ELSE <<c[1], c[5], c[2]>>

VolumeShape(N, C, D, layout) ==
    IF layout = "NCDHW" THEN <<N, C, D, 1, 1>> ELSE <<N, D, 1, 1, C>>

(* the class of voxel d of batch item n: the classes cycle from `first`
   through the C classes; with first = C the first voxel of the volume has
   class C instead, which is no class (no channel set, a label out of range) *)
ClassOf(first, n, d, C, D) ==
    LET i == n * D + d
    IN  IF first = C THEN (IF i = 0 THEN C ELSE i % C) ELSE (first + i) % C

(* raw scores: 1.0 on the voxel's class channel, 0.0 elsewhere *)
Prediction(N, C, D, layout, first) ==
    LET cs == Coords(VolumeShape(N, C, D, layout))
    IN  Tensor(VolumeShape(N, C, D, layout), "float",
               [k \in DOMAIN cs |->
                  LET l == Logical(cs[k], layout)
                  IN  IF ClassOf(first, l[1], l[3], C, D) = l[2] THEN Unit ELSE 0])

(* a dense label map without a channel axis *)
Dense4(N, C, D, first) ==
    LET cs == Coords(<<N, D, 1, 1>>)
    IN  Tensor(<<N, D, 1, 1>>, "long",
               [k \in DOMAIN cs |-> ClassOf(first, cs[k][1], cs[k][2], C, D)])

(* a dense label map with a singleton channel axis *)
Dense5(N, C, D, layout, first) ==
    LET cs == Coords(VolumeShape(N, 1, D, layout))
    IN  Tensor(VolumeShape(N, 1, D, layout), "long",
               [k \in DOMAIN cs |->
                  LET l == Logical(cs[k], layout) IN ClassOf(first, l[1], l[3], C, D)])

(* a target already in one-hot form *)
Encoded(N, C, D, layout, first) ==
    LET cs == Coords(VolumeShape(N, C, D, layout))
    IN  Tensor(VolumeShape(N, C, D, layout), "long",
               [k \in DOMAIN cs |->
                  LET l == Logical(cs[k], layout)
                  IN  IF ClassOf(first, l[1], l[3], C, D) = l[2] THEN 1 ELSE 0])

TargetKinds == {"dense4", "dense5", "encoded"}

Target(kind, N, C, D, layout, first) ==
    CASE kind = "dense4" -> Dense4(N, C, D, first)
      [] kind = "dense5" -> Dense5(N, C, D, layout, first)
      [] OTHER -> Encoded(N, C, D, layout, first)

(* the first classes tried: the background, the first foreground class, and
   C for a volume whose first voxel has no class *)
Firsts(C) == {0, 1, C}

(* the descriptions of the inputs of one call *)
Volumes ==
    [N : 1..MaxBatch, C : 1..MaxClasses, D : 1..MaxDepth,
     kind : TargetKinds, pfirst : 0..MaxClasses, tfirst : 0..MaxClasses]

Inputs ==
    {v \in Volumes : /\ v.N * v.D <= MaxVoxels
                     /\ v.pfirst \in Firsts(v.C)
                     /\ v.tfirst \in Firsts(v.C)}

PredictionOf(v, layout) == Prediction(v.N, v.C, v.D, layout, v.pfirst)

TargetOf(v, layout) == Target(v.kind, v.N, v.C, v.D, layout, v.tfirst)

(***************************************************************************)
(* State machine: one Dice instance, called any number of times.           *)
(***************************************************************************)
DiceInstances ==
    {Dice(y, x, s, a, b, l) : y \in BOOLEAN, x \in BOOLEAN, s \in BOOLEAN,
                              a \in BOOLEAN, b \in BOOLEAN, l \in Layouts}

NoCall == [pc |-> "idle"]

Idle == [pc |-> "idle"]

Init ==
    /\ instance \in DiceInstances
    /\ call = NoCall
    /\ onehot = Idle
    /\ brats = Idle

(* Dice.__call__(prediction, target) *)
DiceCall ==
    /\ call.pc = "idle"
    /\ \E v \in Inputs :
         LET prediction == PredictionOf(v, instance.layout)
             target == TargetOf(v, instance.layout)
         IN  call' = [pc |-> "done", op |-> "Dice.__call__", input |-> v,
                      prediction |-> prediction, target |-> target,
                      outcome |-> Dice__call__(instance, prediction, target)]
    /\ instance' = Dice_after_call(instance)
    /\ UNCHANGED <<onehot, brats>>

(* the caller takes the outcome; the instance is ready for the next call *)
Consume ==
    /\ call.pc = "done"
    /\ call' = NoCall
    /\ UNCHANGED <<instance, onehot, brats>>

Next == DiceCall \/ Consume

Spec == Init /\ [][Next]_vars

(***************************************************************************)
(* State machine SpecSeq: one Dice, DiceScore or DiceCELoss instance,      *)
(* called up to MaxCalls times in a row, the last outcome still in hand.   *)
(***************************************************************************)
DiceScoreInstances ==
    {DiceScore(y, a, l, b) : y \in BOOLEAN, a \in BOOLEAN, l \in Layouts, b \in BOOLEAN}

DiceCELossInstances ==
    {DiceCELoss(y, s, l, b) : y \in BOOLEAN, s \in BOOLEAN, l \in Layouts, b \in BOOLEAN}

SeqInputs ==
    {v \in Inputs : v.N = MaxBatch /\ v.C = MaxClasses /\ v.pfirst = 0 /\ v.tfirst # 1}

InitSeq ==
    /\ instance \in DiceInstances \cup DiceScoreInstances \cup DiceCELossInstances
    /\ call = [pc |-> "idle", count |-> 0, previous |-> "-"]
    /\ onehot = Idle
    /\ brats = Idle

(* the record of one more call *)
Called(op, v, layout, outcome) ==
    [pc |-> "done", count |-> call.count + 1,
     previous |-> IF call.pc = "done" THEN call.outcome.error ELSE "-",
     op |-> op, input |-> v,
     prediction |-> PredictionOf(v, layout), target |-> TargetOf(v, layout),
     outcome |-> outcome]

SeqDiceCall ==
    /\ instance.class = "Dice"
    /\ call.count < MaxCalls
    /\ \E v \in SeqInputs :
         call' = Called("Dice.__call__", v, instance.layout,
                        Dice__call__(instance, PredictionOf(v, instance.layout),
                                     TargetOf(v, instance.layout)))
    /\ instance' = Dice_after_call(instance)
    /\ UNCHANGED <<onehot, brats>>

DiceScoreCall ==
    /\ instance.class = "DiceScore"
    /\ call.count < MaxCalls
    /\ \E v \in SeqInputs :
         call' = Called("DiceScore.__call__", v, instance.dice.layout,
                        DiceScore__call__(instance, PredictionOf(v, instance.dice.layout),
                                          TargetOf(v, instance.dice.layout)))
    /\ instance' = DiceScore_after_call(instance)
    /\ UNCHANGED <<onehot, brats>>

DiceCELossForward ==
    /\ instance.class = "DiceCELoss"
    /\ call.count < MaxCalls
    /\ \E v \in SeqInputs :
         call' = Called("DiceCELoss.forward", v, instance.dice.layout,
                        DiceCELoss_forward(instance, PredictionOf(v, instance.dice.layout),
                                           TargetOf(v, instance.dice.layout)))
    /\ instance' = DiceCELoss_after_forward(instance)
    /\ UNCHANGED <<onehot, brats>>

NextSeq == SeqDiceCall \/ DiceScoreCall \/ DiceCELossForward

SpecSeq == InitSeq /\ [][NextSeq]_vars

(***************************************************************************)
(* State machine SpecOneHot: to_one_hot applied to dense label maps.       *)
(***************************************************************************)
LabelMaps ==
    {v \in [N : 1..MaxBatch, C : 1..MaxClasses, D : 1..MaxDepth,
            kind : {"dense4", "dense5"}, tfirst : 0..MaxClasses, layout : Layouts] :
        v.N * v.D <= MaxVoxels /\ v.tfirst <= v.C}

InitOneHot ==
    /\ instance = Idle
    /\ call = Idle
    /\ onehot = Idle
    /\ brats = Idle

(* to_one_hot(array, layout, channel_axis, num_classes), called as Dice does *)
ToOneHotCall ==
    /\ onehot.pc = "idle"
    /\ \E v \in LabelMaps :
         LET array == Target(v.kind, v.N, v.C, v.D, v.layout, v.tfirst)
             channel_axis == IF v.layout = "NCDHW" THEN 1 ELSE -1
         IN  onehot' = [pc |-> "done", array |-> array, layout |-> v.layout,
                        channel_axis |-> channel_axis, num_classes |-> v.C,
                        outcome |-> to_one_hot(array, v.layout, channel_axis, v.C)]
    /\ UNCHANGED <<instance, call, brats>>

ToOneHotReturn ==
    /\ onehot.pc = "done"
    /\ onehot' = Idle
    /\ UNCHANGED <<instance, call, brats>>

NextOneHot == ToOneHotCall \/ ToOneHotReturn

SpecOneHot == InitOneHot /\ [][NextOneHot]_vars

(***************************************************************************)
(* State machine SpecBraTS: LossBraTS.forward on label volumes.            *)
(***************************************************************************)
BraTSLabels == 0..3

BraTSVolumes ==
    {v \in [N : 1..MaxBatch, D : 1..MaxDepth, pfirst : Firsts(3)] : v.N * v.D <= MaxVoxels}

InitBraTS ==
    /\ instance = [class |-> "LossBraTS"]
    /\ call = Idle
    /\ onehot = Idle
    /\ brats = Idle

(* LossBraTS.forward(p, y) *)
LossBraTSForward ==
    /\ brats.pc = "idle"
    /\ \E v \in BraTSVolumes :
         \E labels \in [1..(v.N * v.D) -> BraTSLabels] :
            LET p == Prediction(v.N, 3, v.D, "NCDHW", v.pfirst)
                y == [shape |-> <<v.N, 1, v.D, 1, 1>>, dtype |-> "long", data |-> labels]
            IN  brats' = [pc |-> "done", p |-> p, y |-> y,
                          loss |-> LossBraTS_forward(p, y)]
    /\ UNCHANGED <<instance, call, onehot>>

LossBraTSReturn ==
    /\ brats.pc = "done"
    /\ brats' = Idle
    /\ UNCHANGED <<instance, call, onehot>>

NextBraTS == LossBraTSForward \/ LossBraTSReturn

SpecBraTS == InitBraTS /\ [][NextBraTS]_vars

(***************************************************************************)
(* Properties of Dice.__call__ (specification Spec)                        *)
(***************************************************************************)
Done == call.pc = "done"

OtherLayout(layout) == IF layout = "NCDHW" THEN "NDHWC" ELSE "NCDHW"

(* every value of the tensor is 0 or 1 *)
Binary(t) == \A k \in DOMAIN t.data : AsFloat(t.data[k], t.dtype) \in {0, Unit}

(* the elements of the tensors at the ratio step that are summed into element
   k of the result: those that agree with it on the axes the sum keeps *)
SummedInto(k) ==
    LET t == call.outcome.target
        rank == Rank(call.prediction)
        reduced == IF instance.layout = "NCDHW" THEN 3..rank ELSE 2..(rank - 1)
        kept == SelectSeq(Range(1, Rank(t) + 1), LAMBDA j : j \notin reduced)
        r == Coord(k - 1, call.outcome.result.shape)
    IN  {e \in DOMAIN t.data :
           LET c == Coord(e - 1, t.shape)
           IN  \A i \in 1..Len(kept) : c[kept[i]] = r[i]}

(* C1 as claimed: with include_background = False and a single-channel
   prediction the call fails with the background-exclusion assertion. *)
C1_BackgroundErrorAlways ==
    (Done /\ ~instance.include_background /\ call.input.C = 1)
        => (call.outcome.status = "raised" /\ call.outcome.error = "background_assert")

(* a requested one-hot conversion is handed a class value outside [0, 1): a
   target label, the softmax of a single channel (1.0), or a raw score *)
C1_ConversionRejects ==
    \/ /\ instance.to_onehot_y
       /\ \E k \in DOMAIN call.target.data :
             call.target.data[k] >= 1 \/ call.target.data[k] < 0
    \/ /\ instance.to_onehot_x
       /\ \/ instance.use_softmax
          \/ /\ ~instance.use_argmax
             /\ \E k \in DOMAIN call.prediction.data :
                   call.prediction.data[k] >= Unit \/ call.prediction.data[k] <= -Unit

(* C1 amended: with include_background = False and a single-channel
   prediction the call never returns; it fails with the background-exclusion
   assertion when the steps before the assertion complete, and with the
   error of the one-hot conversion when that raises first. *)
C1_NeverReturns ==
    (Done /\ ~instance.include_background /\ call.input.C = 1)
        => /\ call.outcome.status = "raised"
           /\ call.outcome.result = NoTensor
           /\ call.outcome.error = IF C1_ConversionRejects
                                   THEN "one_hot_class_range"
                                   ELSE "background_assert"

C1_Witness ==
    /\ Done /\ ~instance.include_background /\ call.input.C = 1
    /\ call.outcome.error = "background_assert"
    /\ instance.to_onehot_y /\ instance.to_onehot_x

(* C2: a call returns only if target and prediction have the same shape at
   the shape assertion; if they differ there the call fails with the
   shape-mismatch error, which carries both shapes, and computes no ratio. *)
C2_ShapeGate ==
    Done =>
        LET o == call.outcome
        IN  /\ o.status = "returned"
                => (o.target.dtype # "none" /\ o.target.shape = o.prediction.shape)
            /\ (o.target.dtype # "none" /\ o.target.shape # o.prediction.shape)
                => /\ o.status = "raised"
                   /\ o.error = "shape_assert"
                   /\ o.msg = <<o.target.shape, o.prediction.shape>>
                   /\ o.result = NoTensor

C2_Witness ==
    /\ Done
    /\ call.outcome.error = "shape_assert"
    /\ call.outcome.target.shape # call.outcome.prediction.shape
    /\ Rank(call.outcome.target) = Rank(call.outcome.prediction)

(* C3: whenever a call returns, the result has shape [batch, classes kept]:
   num_pred_ch classes with include_background, one fewer without. *)
C3_ResultShape ==
    (Done /\ call.outcome.status = "returned")
        => call.outcome.result.shape =
             <<call.input.N,
               IF instance.include_background THEN call.input.C ELSE call.input.C - 1>>

(* C4: the result with include_background = True, its class column 0
   removed, equals the result with include_background = False on the same
   inputs. *)
C4_BackgroundRoundTrip ==
    (Done /\ instance.include_background /\ call.outcome.status = "returned")
        => LET without == Dice__call__([instance EXCEPT !.include_background = FALSE],
                                       call.prediction, call.target)
           IN  without.status = "returned"
                 => /\ Rank(call.outcome.result) = 2
                    /\ DropFirst(call.outcome.result, 2) = without.result

(* C5: the same volume in NCDHW and in NDHWC, under configurations equal but
   for layout, gives the same ratios. *)
C5_LayoutInvariance ==
    Done =>
        LET layout == OtherLayout(instance.layout)
            other == Dice__call__([instance EXCEPT !.layout = layout],
                                  PredictionOf(call.input, layout),
                                  TargetOf(call.input, layout))
        IN  /\ other.status = call.outcome.status
            /\ other.result = call.outcome.result

(* C8: on 0/1-valued tensors every ratio is a fraction with a positive
   denominator, greater than 0 and at most 1, and it is exactly 1 where the
   prediction and the target are identical, also when both are all 0. *)
C8_RatioRange ==
    (Done /\ call.outcome.status = "returned"
          /\ Binary(call.outcome.target) /\ Binary(call.outcome.prediction))
        => \A k \in DOMAIN call.outcome.result.data :
              LET q == call.outcome.result.data[k]
                  t == call.outcome.target
                  p == call.outcome.prediction
              IN  /\ q[2] > 0
                  /\ q[1] > 0
                  /\ q[1] <= q[2]
                  /\ (\A e \in SummedInto(k) :
                          AsFloat(t.data[e], t.dtype) = AsFloat(p.data[e], p.dtype))
                        => q[1] = q[2]

C8_Witness ==
    /\ Done /\ call.outcome.status = "returned"
    /\ Binary(call.outcome.target) /\ Binary(call.outcome.prediction)
    /\ \E k \in DOMAIN call.outcome.result.data :
          call.outcome.result.data[k] = <<1, 1>>
    /\ \E k \in DOMAIN call.outcome.result.data :
          /\ call.outcome.result.data[k][1] = 1
          /\ call.outcome.result.data[k][2] > Unit
    /\ \E k \in DOMAIN call.outcome.result.data :
          /\ call.outcome.result.data[k][1] > Unit
          /\ call.outcome.result.data[k][1] = call.outcome.result.data[k][2]

(***************************************************************************)
(* Properties of to_one_hot (SpecOneHot), LossBraTS (SpecBraTS) and of     *)
(* sequences of calls (SpecSeq)                                            *)
(***************************************************************************)
(* the label map as a tensor without channel axis *)
C6_Labels == IF Rank(onehot.array) >= 5
             THEN squeeze(onehot.array, onehot.channel_axis)
             ELSE onehot.array

C6_InRange ==
    \A k \in DOMAIN onehot.array.data :
        onehot.array.data[k] >= 0 /\ onehot.array.data[k] < onehot.num_classes

(* C6: for a dense label map with every label in [0, num_classes), to_one_hot
   followed by the arg-max over the class axis gives back every voxel's
   label, and each voxel of the one-hot output has exactly one channel at 1
   and the others at 0. *)
C6_OneHotRoundTrip ==
    (onehot.pc = "done" /\ C6_InRange)
        => /\ onehot.outcome.err = "none"
           /\ LET out == onehot.outcome.val
                  back == argmax(out, onehot.channel_axis)
                  ones == sum(out, <<Axis(onehot.channel_axis, Rank(out)) - 1>>)
              IN  /\ Rank(out) = 5
                  /\ out.shape[Axis(onehot.channel_axis, 5)] = onehot.num_classes
                  /\ back.shape = C6_Labels.shape
                  /\ back.data = C6_Labels.data
                  /\ \A k \in DOMAIN out.data : out.data[k] \in {0, 1}
                  /\ \A k \in DOMAIN ones.val.data : ones.val.data[k] = 1

C6_Witness ==
    /\ onehot.pc = "done" /\ C6_InRange
    /\ onehot.layout = "NCDHW"
    /\ Rank(onehot.array) = 5
    /\ onehot.num_classes = MaxClasses
    /\ onehot.array.shape[1] > 1 /\ onehot.array.shape[3] > 1
    /\ \E k \in DOMAIN onehot.array.data : onehot.array.data[k] = MaxClasses - 1

(* the masks (whole, core, enhancing) the claim gives for each label *)
C7_Table(label) ==
    CASE label = 0 -> <<0, 0, 0>>
      [] label = 1 -> <<1, 1, 0>>
      [] label = 2 -> <<1, 0, 0>>
      [] label = 3 -> <<1, 1, 1>>

(* C7: the three region masks of every target voxel follow the table, and
   prediction channels 0, 1, 2 are paired with the whole, core and enhancing
   masks in both terms of each region loss. *)
C7_RegionMasks ==
    brats.pc = "done"
        => \A r \in 1..3 :
              LET term == brats.loss.sum_of[r]
                  voxels == brats.y.shape[3]
              IN  /\ term.dice.target.dtype = "bool"
                  /\ term.dice.target.shape = brats.y.shape
                  /\ \A e \in DOMAIN brats.y.data :
                        /\ term.dice.target.data[e] = C7_Table(brats.y.data[e])[r]
                        /\ term.ce.target.data[e] = C7_Table(brats.y.data[e])[r] * Unit
                        /\ term.dice.input.data[e] =
                             brats.p.data[((e - 1) \div voxels) * 3 * voxels
                                          + (r - 1) * voxels + ((e - 1) % voxels) + 1]
                  /\ term.dice.input.shape = brats.y.shape
                  /\ term.ce.input = term.dice.input

C7_Witness ==
    /\ brats.pc = "done"
    /\ \A l \in BraTSLabels : \E e \in DOMAIN brats.y.data : brats.y.data[e] = l
    /\ \E e \in DOMAIN brats.p.data : brats.p.data[e] # 0

(* C9: a call, failing or not, leaves every attribute of the instance as
   constructed, and a call with the same arguments as the one before it has
   the same outcome. *)
C9_NoStateAcrossCalls ==
    [][ /\ instance' = instance
        /\ (call.pc = "done" /\ call'.op = call.op /\ call'.input = call.input)
              => call'.outcome = call.outcome ]_vars

C9_Witness ==
    /\ call.pc = "done"
    /\ call.count = 2
    /\ call.previous \in {"background_assert", "shape_assert"}
    /\ call.outcome.status = "returned"
    /\ instance.class = "Dice"

(* C10: the target handed to the cross-entropy is y_true with its singleton
   channel axis removed, under both layouts. *)
C10_ChannelAxisRemoved ==
    (call.pc = "done" /\ call.op = "DiceCELoss.forward" /\ call.input.kind = "dense5")
        => call.outcome.ce_target.shape =
              RemoveAt(call.target.shape,
                       IF instance.dice.layout = "NCDHW" THEN 2 ELSE Rank(call.target))
====
